---- MODULE Spec2Model ----
(***************************************************************************)
(* The contact-form endpoint of lares_backend                              *)
(* (directus/extensions/endpoints/contact-form/index.js): the in-memory    *)
(* fixed-window rate limiter, the honeypot trap, the whitelist validator,  *)
(* the tag stripper and the async POST handler with its storage and mail   *)
(* collaborators.                                                          *)
(*                                                                         *)
(* JavaScript strings are sequences of one-character strings, so that      *)
(* trim, split, toLowerCase and the regular expressions are computed.      *)
(* JavaScript values are records [t, s, n]: t is the typeof tag            *)
(* ("undefined", "null", "string", "number", "object"), s the characters   *)
(* of a string, n the value of a number.                                   *)
(***************************************************************************)
EXTENDS Integers, Sequences, FiniteSets, TLC

\* ------------------------------------------------------------ characters

Lower == {"a", "b", "c", "d", "e", "f", "g", "h", "i", "j", "k", "l", "m", "n", "o", "p", "q", "r", "s", "t", "u", "v", "w", "x", "y", "z"}

Upper == {"A", "B", "C", "D", "E", "F", "G", "H", "I", "J", "K", "L", "M", "N", "O", "P", "Q", "R", "S", "T", "U", "V", "W", "X", "Y", "Z"}

Digit == {"0", "1", "2", "3", "4", "5", "6", "7", "8", "9"}

\* The range À-ÿ of the name pattern (U+00C0 .. U+00FF, with × and ÷).
Accent == {"À", "Á", "Â", "Ã", "Ä", "Å", "Æ", "Ç", "È", "É", "Ê", "Ë", "Ì", "Í", "Î", "Ï", "Ð", "Ñ", "Ò", "Ó", "Ô", "Õ", "Ö", "×", "Ø", "Ù", "Ú", "Û", "Ü", "Ý", "Þ", "ß", "à", "á", "â", "ã", "ä", "å", "æ", "ç", "è", "é", "ê", "ë", "ì", "í", "î", "ï", "ð", "ñ", "ò", "ó", "ô", "õ", "ö", "÷", "ø", "ù", "ú", "û", "ü", "ý", "þ", "ÿ"}

\* \s of the patterns and the characters String.prototype.trim removes
\* (space, tab, line feed, carriage return, form feed).
WhiteSpace == {" ", "\t", "\n", "\r", "\f"}

UpperSeq == <<"A", "B", "C", "D", "E", "F", "G", "H", "I", "J", "K", "L", "M", "N", "O", "P", "Q", "R", "S", "T", "U", "V", "W", "X", "Y", "Z", "À", "Á", "Â", "Ã", "Ä", "Å", "Æ", "Ç", "È", "É", "Ê", "Ë", "Ì", "Í", "Î", "Ï", "Ð", "Ñ", "Ò", "Ó", "Ô", "Õ", "Ö", "Ø", "Ù", "Ú", "Û", "Ü", "Ý", "Þ">>

LowerSeq == <<"a", "b", "c", "d", "e", "f", "g", "h", "i", "j", "k", "l", "m", "n", "o", "p", "q", "r", "s", "t", "u", "v", "w", "x", "y", "z", "à", "á", "â", "ã", "ä", "å", "æ", "ç", "è", "é", "ê", "ë", "ì", "í", "î", "ï", "ð", "ñ", "ò", "ó", "ô", "õ", "ö", "ø", "ù", "ú", "û", "ü", "ý", "þ">>

\* ------------------------------------------------------ JavaScript values

Undefined == [t |-> "undefined", s |-> <<>>, n |-> 0]

Null == [t |-> "null", s |-> <<>>, n |-> 0]

Str(chars) == [t |-> "string", s |-> chars, n |-> 0]

Num(k) == [t |-> "number", s |-> <<>>, n |-> k]

\* An object or array value (its contents are never read by the endpoint).
Obj == [t |-> "object", s |-> <<>>, n |-> 0]

\* ToBoolean: undefined, null, "" and 0 are falsy.
Truthy(v) ==
  CASE v.t = "undefined" -> FALSE
    [] v.t = "null" -> FALSE
    [] v.t = "string" -> v.s # <<>>
    [] v.t = "number" -> v.n # 0
    [] OTHER -> TRUE

IsString(v) == v.t = "string"

\* Whether a property access v.prop / method call on v throws a TypeError
\* for lack of the method: every non-string value here has no trim/split.
HasStringMethods(v) == v.t = "string"

\* -------------------------------------------------------- string methods

RECURSIVE TrimStart(_)
TrimStart(str) ==
  IF str # <<>> /\ Head(str) \in WhiteSpace THEN TrimStart(Tail(str)) ELSE str

RECURSIVE TrimEnd(_)
TrimEnd(str) ==
  IF str # <<>> /\ str[Len(str)] \in WhiteSpace
  THEN TrimEnd(SubSeq(str, 1, Len(str) - 1))
  ELSE str

\* String.prototype.trim
Trim(str) == TrimEnd(TrimStart(str))

LowerOf(c) ==
  IF \E i \in 1..Len(UpperSeq) : UpperSeq[i] = c
  THEN LowerSeq[CHOOSE i \in 1..Len(UpperSeq) : UpperSeq[i] = c]
  ELSE c

\* String.prototype.toLowerCase
ToLowerCase(str) == [i \in 1..Len(str) |-> LowerOf(str[i])]

\* str.split(',')[0]: the characters before the first comma.
RECURSIVE SplitCommaFirst(_)
SplitCommaFirst(str) ==
  IF str = <<>> \/ Head(str) = "," THEN <<>>
  ELSE <<Head(str)>> \o SplitCommaFirst(Tail(str))

\* The least index >= from of character c in str, or 0.
IndexFrom(str, c, from) ==
  IF \E j \in from..Len(str) : str[j] = c
  THEN CHOOSE j \in from..Len(str) :
         str[j] = c /\ \A k \in from..(j - 1) : str[k] # c
  ELSE 0

\* str.replace(/<[^>]*>/g, ''): scanning left to right, a '<' that has a
\* later '>' is removed with everything up to the first such '>'.
RECURSIVE ReplaceTags(_)
ReplaceTags(str) ==
  IF str = <<>> THEN <<>>
  ELSE IF Head(str) = "<" /\ IndexFrom(str, ">", 2) # 0
       THEN ReplaceTags(SubSeq(str, IndexFrom(str, ">", 2) + 1, Len(str)))
       ELSE <<Head(str)>> \o ReplaceTags(Tail(str))

\* str.replace(/<[^<>]*>/g, ''): only a '<' whose next bracket is a '>' opens
\* a match.
RECURSIVE ReplaceInnermostTags(_)
ReplaceInnermostTags(str) ==
  IF str = <<>> THEN <<>>
  ELSE IF /\ Head(str) = "<"
          /\ IndexFrom(str, ">", 2) # 0
          /\ IndexFrom(str, "<", 2) \in {0} \cup (IndexFrom(str, ">", 2)..Len(str))
       THEN ReplaceInnermostTags(SubSeq(str, IndexFrom(str, ">", 2) + 1, Len(str)))
       ELSE <<Head(str)>> \o ReplaceInnermostTags(Tail(str))

\* stripHTML with the pattern /<[^<>]*>/g.
stripHTMLInnermost(v) ==
  IF ~IsString(v) THEN <<>> ELSE ReplaceInnermostTags(v.s)

\* str.replace(/<[^>]*>/, ''): without the g flag only the first match is
\* removed.
RECURSIVE ReplaceFirstTag(_)
ReplaceFirstTag(str) ==
  IF str = <<>> THEN <<>>
  ELSE IF Head(str) = "<" /\ IndexFrom(str, ">", 2) # 0
       THEN SubSeq(str, IndexFrom(str, ">", 2) + 1, Len(str))
       ELSE <<Head(str)>> \o ReplaceFirstTag(Tail(str))

\* stripHTML with the pattern /<[^>]*>/.
stripHTMLFirstTag(v) ==
  IF ~IsString(v) THEN <<>> ELSE ReplaceFirstTag(v.s)

\* stripHTML without the typeof guard: str.replace is called on a value that
\* has no such method and the call ends with a TypeError, not with a string.
stripHTMLUnguarded(v) ==
  IF ~HasStringMethods(v) THEN "TypeError" ELSE ReplaceTags(v.s)

\* stripHTML(str): a JavaScript value in, the characters of a string out.
stripHTML(v) ==
  IF ~IsString(v) THEN <<>> ELSE ReplaceTags(v.s)

AllIn(str, chars) == \A i \in 1..Len(str) : str[i] \in chars

\* ------------------------------------------------------------- whitelist

NAME_MIN == 2

NAME_MAX == 100

TLD_MIN == 2

TLD_MAX == 254

PHONE_MAX == 20

MESSAGE_MIN == 10

MESSAGE_MAX == 2000

NameChars == Lower \cup Upper \cup Accent \cup WhiteSpace \cup {"'", "-"}

EmailLocalChars == Lower \cup Upper \cup Digit \cup {".", "_", "%", "+", "-"}

EmailDomainChars == Lower \cup Upper \cup Digit \cup {".", "-"}

PhoneChars == Digit \cup WhiteSpace \cup {"+", "-", "(", ")"}

\* ALLOWED_PATTERNS.name.test(str)
NamePattern(str) ==
  /\ Len(str) >= NAME_MIN /\ Len(str) <= NAME_MAX
  /\ AllIn(str, NameChars)

\* ALLOWED_PATTERNS.email.test(str): local part, '@' at i, domain, '.' at j,
\* letters to the end.
EmailPattern(str) ==
  \E i \in 2..Len(str) : \E j \in (i + 2)..Len(str) :
    /\ str[i] = "@"
    /\ AllIn(SubSeq(str, 1, i - 1), EmailLocalChars)
    /\ AllIn(SubSeq(str, i + 1, j - 1), EmailDomainChars)
    /\ str[j] = "."
    /\ Len(str) - j >= TLD_MIN /\ Len(str) - j <= TLD_MAX
    /\ AllIn(SubSeq(str, j + 1, Len(str)), Lower \cup Upper)

\* ALLOWED_PATTERNS.phone.test(str)
PhonePattern(str) == Len(str) <= PHONE_MAX /\ AllIn(str, PhoneChars)

\* ALLOWED_PATTERNS.message.test(str): [\s\S] is any character.
MessagePattern(str) == Len(str) >= MESSAGE_MIN /\ Len(str) <= MESSAGE_MAX

ALLOWED_SUBJECTS ==
  { <<"i", "n", "f", "o">>,
    <<"v", "i", "s", "i", "t">>,
    <<"p", "a", "r", "t", "n", "e", "r", "s", "h", "i", "p">>,
    <<"o", "t", "h", "e", "r">> }

\* Array.prototype.includes compares with SameValueZero: only a string
\* value equals a string of the list.
SubjectAllowed(v) == IsString(v) /\ v.s \in ALLOWED_SUBJECTS

\* The name pattern tested on the value as sent, without trim().
NameFailsRaw(data) ==
  \/ ~Truthy(data.name)
  \/ ~IsString(data.name)
  \/ ~NamePattern(data.name.s)

\* The message pattern tested on the value as sent, without trim().
MessageFailsRaw(data) ==
  \/ ~Truthy(data.message)
  \/ ~IsString(data.message)
  \/ ~MessagePattern(data.message.s)

NameFails(data) ==
  \/ ~Truthy(data.name)
  \/ ~IsString(data.name)
  \/ ~NamePattern(Trim(data.name.s))

EmailFails(data) ==
  \/ ~Truthy(data.email)
  \/ ~IsString(data.email)
  \/ ~EmailPattern(Trim(data.email.s))

PhoneFails(data) ==
  /\ Truthy(data.phone)
  /\ IsString(data.phone)
  /\ Trim(data.phone.s) # <<>>
  /\ ~PhonePattern(Trim(data.phone.s))

SubjectFails(data) ==
  \/ ~Truthy(data.subject)
  \/ ~SubjectAllowed(data.subject)

MessageFails(data) ==
  \/ ~Truthy(data.message)
  \/ ~IsString(data.message)
  \/ ~MessagePattern(Trim(data.message.s))

FailingFields(data) ==
  {f \in {"name"} : NameFails(data)}
    \cup {f \in {"email"} : EmailFails(data)}
    \cup {f \in {"phone"} : PhoneFails(data)}
    \cup {f \in {"subject"} : SubjectFails(data)}
    \cup {f \in {"message"} : MessageFails(data)}

ErrorText(f) ==
  CASE f = "name" -> "Invalid name"
    [] f = "email" -> "Invalid email"
    [] f = "phone" -> "Invalid phone"
    [] f = "subject" -> "Invalid subject"
    [] f = "message" -> "Invalid message"

\* validateFormData(data): errors is the object's key -> reason mapping.
\* The fields reported by a validator that returns at its first failure.
FirstFailingField(data) ==
  IF NameFails(data) THEN {"name"}
  ELSE IF EmailFails(data) THEN {"email"}
  ELSE IF PhoneFails(data) THEN {"phone"}
  ELSE IF SubjectFails(data) THEN {"subject"}
  ELSE IF MessageFails(data) THEN {"message"}
  ELSE {}

validateFormDataFirstError(data) ==
  LET errors == [f \in FirstFailingField(data) |-> ErrorText(f)]
  IN  [valid |-> DOMAIN errors = {}, errors |-> errors]

validateFormData(data) ==
  LET errors == [f \in FailingFields(data) |-> ErrorText(f)]
  IN [valid |-> DOMAIN errors = {}, errors |-> errors]

\* ---------------------------------------------------------- rate limiter

RATE_LIMIT_MAX == 3

RATE_LIMIT_WINDOW_MS == 15 * 60 * 1000

\* isRateLimited with the quota test off by one (count > RATE_LIMIT_MAX).
isRateLimitedOffByOne(store, ip, t) ==
  IF ip \notin DOMAIN store
  THEN [limited |-> FALSE,
        store |-> [k \in DOMAIN store \cup {ip} |->
                     IF k = ip THEN [count |-> 1, firstRequest |-> t]
                     ELSE store[k]]]
  ELSE IF t - store[ip].firstRequest > RATE_LIMIT_WINDOW_MS
  THEN [limited |-> FALSE,
        store |-> [store EXCEPT ![ip] = [count |-> 1, firstRequest |-> t]]]
  ELSE IF store[ip].count > RATE_LIMIT_MAX
  THEN [limited |-> TRUE, store |-> store]
  ELSE [limited |-> FALSE,
        store |-> [store EXCEPT ![ip].count = @ + 1]]

\* isRateLimited incrementing a copy of the entry: the update is lost.
isRateLimitedLostUpdate(store, ip, t) ==
  IF ip \notin DOMAIN store
  THEN [limited |-> FALSE,
        store |-> [k \in DOMAIN store \cup {ip} |->
                     IF k = ip THEN [count |-> 1, firstRequest |-> t]
                     ELSE store[k]]]
  ELSE IF t - store[ip].firstRequest > RATE_LIMIT_WINDOW_MS
  THEN [limited |-> FALSE,
        store |-> [store EXCEPT ![ip] = [count |-> 1, firstRequest |-> t]]]
  ELSE IF store[ip].count >= RATE_LIMIT_MAX
  THEN [limited |-> TRUE, store |-> store]
  ELSE [limited |-> FALSE, store |-> store]

\* isRateLimited with the window test inclusive (>=): the boundary resets.
isRateLimitedInclusive(store, ip, t) ==
  IF ip \notin DOMAIN store
  THEN [limited |-> FALSE,
        store |-> [k \in DOMAIN store \cup {ip} |->
                     IF k = ip THEN [count |-> 1, firstRequest |-> t]
                     ELSE store[k]]]
  ELSE IF t - store[ip].firstRequest >= RATE_LIMIT_WINDOW_MS
  THEN [limited |-> FALSE,
        store |-> [store EXCEPT ![ip] = [count |-> 1, firstRequest |-> t]]]
  ELSE IF store[ip].count >= RATE_LIMIT_MAX
  THEN [limited |-> TRUE, store |-> store]
  ELSE [limited |-> FALSE,
        store |-> [store EXCEPT ![ip].count = @ + 1]]

\* isRateLimited counting the rejected attempts too.
isRateLimitedCountsRejected(store, ip, t) ==
  IF ip \notin DOMAIN store
  THEN [limited |-> FALSE,
        store |-> [k \in DOMAIN store \cup {ip} |->
                     IF k = ip THEN [count |-> 1, firstRequest |-> t]
                     ELSE store[k]]]
  ELSE IF t - store[ip].firstRequest > RATE_LIMIT_WINDOW_MS
  THEN [limited |-> FALSE,
        store |-> [store EXCEPT ![ip] = [count |-> 1, firstRequest |-> t]]]
  ELSE IF store[ip].count >= RATE_LIMIT_MAX
  THEN [limited |-> TRUE,
        store |-> [store EXCEPT ![ip].count = @ + 1]]
  ELSE [limited |-> FALSE,
        store |-> [store EXCEPT ![ip].count = @ + 1]]

\* isRateLimited restarting the window at every rejected attempt.
isRateLimitedSliding(store, ip, t) ==
  IF ip \notin DOMAIN store
  THEN [limited |-> FALSE,
        store |-> [k \in DOMAIN store \cup {ip} |->
                     IF k = ip THEN [count |-> 1, firstRequest |-> t]
                     ELSE store[k]]]
  ELSE IF t - store[ip].firstRequest > RATE_LIMIT_WINDOW_MS
  THEN [limited |-> FALSE,
        store |-> [store EXCEPT ![ip] = [count |-> 1, firstRequest |-> t]]]
  ELSE IF store[ip].count >= RATE_LIMIT_MAX
  THEN [limited |-> TRUE,
        store |-> [store EXCEPT ![ip].firstRequest = t]]
  ELSE [limited |-> FALSE,
        store |-> [store EXCEPT ![ip].count = @ + 1]]

\* isRateLimited with one quota for all clients: a known client is rejected
\* as soon as any entry holds the full count.
isRateLimitedShared(store, ip, t) ==
  IF ip \notin DOMAIN store
  THEN [limited |-> FALSE,
        store |-> [k \in DOMAIN store \cup {ip} |->
                     IF k = ip THEN [count |-> 1, firstRequest |-> t]
                     ELSE store[k]]]
  ELSE IF t - store[ip].firstRequest > RATE_LIMIT_WINDOW_MS
  THEN [limited |-> FALSE,
        store |-> [store EXCEPT ![ip] = [count |-> 1, firstRequest |-> t]]]
  ELSE IF \E k \in DOMAIN store : store[k].count >= RATE_LIMIT_MAX
  THEN [limited |-> TRUE, store |-> store]
  ELSE [limited |-> FALSE,
        store |-> [store EXCEPT ![ip].count = @ + 1]]

\* isRateLimited opening a new window when the quota is used up, not when
\* the window has elapsed.
isRateLimitedRestartsWhenFull(store, ip, t) ==
  IF ip \notin DOMAIN store
  THEN [limited |-> FALSE,
        store |-> [k \in DOMAIN store \cup {ip} |->
                     IF k = ip THEN [count |-> 1, firstRequest |-> t]
                     ELSE store[k]]]
  ELSE IF store[ip].count >= RATE_LIMIT_MAX
  THEN [limited |-> FALSE,
        store |-> [store EXCEPT ![ip] = [count |-> 1, firstRequest |-> t]]]
  ELSE [limited |-> FALSE,
        store |-> [store EXCEPT ![ip].count = @ + 1]]

\* isRateLimited(ip) on the Map `store` at Date.now() = t: the value
\* returned and the Map afterwards.
isRateLimited(store, ip, t) ==
  IF ip \notin DOMAIN store
  THEN [limited |-> FALSE,
        store |-> [k \in DOMAIN store \cup {ip} |->
                     IF k = ip THEN [count |-> 1, firstRequest |-> t]
                     ELSE store[k]]]
  ELSE IF t - store[ip].firstRequest > RATE_LIMIT_WINDOW_MS
  THEN [limited |-> FALSE,
        store |-> [store EXCEPT ![ip] = [count |-> 1, firstRequest |-> t]]]
  ELSE IF store[ip].count >= RATE_LIMIT_MAX
  THEN [limited |-> TRUE, store |-> store]
  ELSE [limited |-> FALSE,
        store |-> [store EXCEPT ![ip].count = @ + 1]]

\* ---------------------------------------------------------------- state

VARIABLES
  now,             \* Date.now(), in milliseconds
  rateLimitStore,  \* the module-level Map: identity -> [count, firstRequest]
  running,         \* the request whose handler holds the JavaScript thread, or 0
  reqs,            \* the requests received so far, in arrival order
  call             \* a direct call of stripHTML or validateFormData:
                   \* [fn, arg, outs], outs the values returned so far

vars == <<now, rateLimitStore, running, reqs, call>>

\* No function is called outside the handler.
NoCall == [fn |-> "", arg |-> Undefined, outs |-> <<>>]

EmptyObject ==
  [honeypot |-> Undefined, name |-> Undefined, email |-> Undefined,
   phone |-> Undefined, subject |-> Undefined, message |-> Undefined]

NoData ==
  [name |-> <<>>, email |-> <<>>, phone |-> <<>>, subject |-> Undefined,
   message |-> <<>>, ip_address |-> <<>>, status |-> ""]

NoValidation == [valid |-> FALSE, errors |-> <<>>]

\* A request as Express hands it to the handler, with the handler's locals
\* (clientIp, validation, sanitizedData), its position (pc), and what it has
\* done so far: the stages run, the responses sent, the records passed to
\* createOne, whether createOne resolved, the mails passed to send, and the
\* messages written to console.error.
NewRequest(request) ==
  [request |-> request,
   pc |-> "identity",
   clientIp |-> <<>>,
   at |-> 0,
   limited |-> FALSE,
   validation |-> NoValidation,
   sanitizedData |-> NoData,
   stages |-> <<>>,
   responses |-> <<>>,
   created |-> <<>>,
   stored |-> FALSE,
   mails |-> <<>>,
   logged |-> <<>>]

\* res.status(code).json(body)
Response(code, body) == [status |-> code, body |-> body]

TooManyRequests ==
  Response(429, [message |-> "Too many requests. Try again later."])

HoneypotResponse ==
  Response(200, [message |-> "Thank you for your message."])

\* The 400 response without the per-field detail.
ValidationFailedNoDetail(errors) ==
  Response(400, [message |-> "Validation failed", errors |-> <<>>])

ValidationFailed(errors) ==
  Response(400, [message |-> "Validation failed", errors |-> errors])

SuccessResponse ==
  Response(200, [message |-> "Message received successfully."])

InternalError ==
  Response(500, [message |-> "Internal server error."])

\* req.headers['x-forwarded-for']?.split(',')[0] || req.ip || 'unknown'
\* throws when the header is neither nullish nor a string (no split method).
\* req.ip is a string or undefined.
IdentityThrows(request) ==
  /\ request.xff.t \notin {"undefined", "null"}
  /\ ~HasStringMethods(request.xff)

\* The identity taken from the whole header, not from its first entry.
ResolveIdentityWholeHeader(request) ==
  IF Truthy(request.xff) THEN request.xff.s
  ELSE IF Truthy(request.ip) THEN request.ip.s
  ELSE <<"u", "n", "k", "n", "o", "w", "n">>

ResolveIdentity(request) ==
  LET first == IF request.xff.t \in {"undefined", "null"} THEN Undefined
               ELSE Str(SplitCommaFirst(request.xff.s))
  IN IF Truthy(first) THEN first.s
     ELSE IF Truthy(request.ip) THEN request.ip.s
     ELSE <<"u", "n", "k", "n", "o", "w", "n">>

\* const body = req.body || {}
BodyOf(request) ==
  IF request.body \in {Undefined, Null} THEN EmptyObject ELSE request.body

\* body.phone ? stripHTML(body.phone.trim()) : '' throws when phone is truthy
\* and has no trim method.
SanitizeThrows(body) == Truthy(body.phone) /\ ~HasStringMethods(body.phone)

\* The record with the message trimmed but not stripped of its tags.
SanitizedDataRaw(body, clientIp) ==
  [name |-> stripHTML(Str(Trim(body.name.s))),
   email |-> ToLowerCase(Trim(body.email.s)),
   phone |-> IF Truthy(body.phone) THEN stripHTML(Str(Trim(body.phone.s)))
             ELSE <<>>,
   subject |-> body.subject,
   message |-> Trim(body.message.s),
   ip_address |-> clientIp,
   status |-> "new"]

SanitizedData(body, clientIp) ==
  [name |-> stripHTML(Str(Trim(body.name.s))),
   email |-> ToLowerCase(Trim(body.email.s)),
   phone |-> IF Truthy(body.phone) THEN stripHTML(Str(Trim(body.phone.s)))
             ELSE <<>>,
   subject |-> body.subject,
   message |-> stripHTML(Str(Trim(body.message.s))),
   ip_address |-> clientIp,
   status |-> "new"]

\* The argument of mailService.send: the subject line is built from the
\* stored subject, the template data are the sanitized fields.
MailOf(data) ==
  [to |-> "process.env.ADMIN_EMAIL",
   subject |-> <<"[Lares] New contact: ", data.subject>>,
   template |-> "contact-notification",
   data |-> [name |-> data.name, email |-> data.email, phone |-> data.phone,
             subject |-> data.subject, message |-> data.message]]

Init ==
  /\ now = 0
  /\ rateLimitStore = <<>>
  /\ running = 0
  /\ reqs = <<>>
  /\ call = NoCall

\* ------------------------------------------------------- handler steps

\* The handler ends with a response and gives the thread back.
Finish(r, stage, response, log) ==
  /\ reqs' = [reqs EXCEPT ![r].pc = "done",
                          ![r].stages = Append(@, stage),
                          ![r].responses = Append(@, response),
                          ![r].logged = @ \o log]
  /\ running' = 0

\* The handler gives the thread back after resolving the identity, as if it
\* awaited before the rate check.
ReceiveYields(request) ==
  /\ running = 0
  /\ reqs' = Append(reqs,
        IF IdentityThrows(request)
        THEN [NewRequest(request) EXCEPT
                !.pc = "done",
                !.stages = <<"identity">>,
                !.responses = <<InternalError>>,
                !.logged = <<"TypeError">>]
        ELSE [NewRequest(request) EXCEPT
                !.pc = "rate",
                !.stages = <<"identity">>,
                !.clientIp = ResolveIdentity(request)])
  /\ UNCHANGED <<now, rateLimitStore, running, call>>

\* Express calls the handler (when no other handler is running), which
\* resolves the client identity; a throw goes to the outer catch.
Receive(request) ==
  /\ running = 0
  /\ LET r == Len(reqs) + 1
     IN IF IdentityThrows(request)
        THEN /\ reqs' = Append(reqs,
                  [NewRequest(request) EXCEPT
                     !.pc = "done",
                     !.stages = <<"identity">>,
                     !.responses = <<InternalError>>,
                     !.logged = <<"TypeError">>])
             /\ running' = 0
        ELSE /\ reqs' = Append(reqs,
                  [NewRequest(request) EXCEPT
                     !.pc = "rate",
                     !.stages = <<"identity">>,
                     !.clientIp = ResolveIdentity(request)])
             /\ running' = r
  /\ UNCHANGED <<now, rateLimitStore, call>>

\* The rate check without its return: the 429 is sent and the handler goes
\* on to the honeypot check.
RateCheckNoReturn(r) ==
  /\ running = r
  /\ reqs[r].pc = "rate"
  /\ LET res == isRateLimited(rateLimitStore, reqs[r].clientIp, now)
     IN /\ rateLimitStore' = res.store
        /\ reqs' = [reqs EXCEPT
              ![r].pc = "honeypot",
              ![r].at = now,
              ![r].limited = res.limited,
              ![r].stages = Append(@, "rate"),
              ![r].responses = IF res.limited THEN Append(@, TooManyRequests) ELSE @]
  /\ UNCHANGED <<now, running, call>>

\* if (isRateLimited(clientIp)) return res.status(429).json(...)
RateCheck(r) ==
  /\ running = r
  /\ reqs[r].pc = "rate"
  /\ LET res == isRateLimited(rateLimitStore, reqs[r].clientIp, now)
     IN /\ rateLimitStore' = res.store
        /\ IF res.limited
           THEN /\ reqs' = [reqs EXCEPT ![r].pc = "done",
                                        ![r].at = now,
                                        ![r].limited = TRUE,
                                        ![r].stages = Append(@, "rate"),
                                        ![r].responses = Append(@, TooManyRequests)]
                /\ running' = 0
           ELSE /\ reqs' = [reqs EXCEPT ![r].pc = "honeypot",
                                        ![r].at = now,
                                        ![r].stages = Append(@, "rate")]
                /\ UNCHANGED running
  /\ UNCHANGED <<now, call>>

\* The honeypot check without its return: a trapped request goes on.
HoneypotFallsThrough(r) ==
  /\ running = r
  /\ reqs[r].pc = "honeypot"
  /\ reqs' = [reqs EXCEPT ![r].pc = "validate",
                          ![r].stages = Append(@, "honeypot")]
  /\ UNCHANGED <<now, rateLimitStore, running, call>>

\* The honeypot check giving a trapped request its unit of quota back.
HoneypotRefunds(r) ==
  /\ running = r
  /\ reqs[r].pc = "honeypot"
  /\ IF Truthy(BodyOf(reqs[r].request).honeypot)
     THEN /\ Finish(r, "honeypot", HoneypotResponse, <<>>)
          /\ rateLimitStore' =
               [rateLimitStore EXCEPT ![reqs[r].clientIp].count = @ - 1]
     ELSE /\ reqs' = [reqs EXCEPT ![r].pc = "validate",
                                  ![r].stages = Append(@, "honeypot")]
          /\ UNCHANGED <<running, rateLimitStore>>
  /\ UNCHANGED <<now, call>>

\* if (body.honeypot) return res.status(200).json(...)
Honeypot(r) ==
  /\ running = r
  /\ reqs[r].pc = "honeypot"
  /\ IF Truthy(BodyOf(reqs[r].request).honeypot)
     THEN Finish(r, "honeypot", HoneypotResponse, <<>>)
     ELSE /\ reqs' = [reqs EXCEPT ![r].pc = "validate",
                                  ![r].stages = Append(@, "honeypot")]
          /\ UNCHANGED running
  /\ UNCHANGED <<now, rateLimitStore, call>>

\* The validation step without its return: the 400 is sent and the handler
\* goes on to sanitize.
ValidateNoReturn(r) ==
  /\ running = r
  /\ reqs[r].pc = "validate"
  /\ LET validation == validateFormData(BodyOf(reqs[r].request))
     IN reqs' = [reqs EXCEPT
          ![r].pc = "sanitize",
          ![r].validation = validation,
          ![r].stages = Append(@, "validate"),
          ![r].responses =
            IF validation.valid THEN @
            ELSE Append(@, ValidationFailed(validation.errors))]
  /\ UNCHANGED <<now, rateLimitStore, running, call>>

\* const validation = validateFormData(body); if (!validation.valid) ... 400
Validate(r) ==
  /\ running = r
  /\ reqs[r].pc = "validate"
  /\ LET validation == validateFormData(BodyOf(reqs[r].request))
     IN IF ~validation.valid
        THEN /\ reqs' = [reqs EXCEPT
                   ![r].pc = "done",
                   ![r].validation = validation,
                   ![r].stages = Append(@, "validate"),
                   ![r].responses = Append(@, ValidationFailed(validation.errors))]
             /\ running' = 0
        ELSE /\ reqs' = [reqs EXCEPT ![r].pc = "sanitize",
                                     ![r].validation = validation,
                                     ![r].stages = Append(@, "validate")]
             /\ UNCHANGED running
  /\ UNCHANGED <<now, rateLimitStore, call>>

\* const sanitizedData = {...}; const schema = await getSchema();
\* the handler is suspended at the await and the thread is free.
Sanitize(r) ==
  /\ running = r
  /\ reqs[r].pc = "sanitize"
  /\ IF SanitizeThrows(BodyOf(reqs[r].request))
     THEN Finish(r, "sanitize", InternalError, <<"TypeError">>)
     ELSE /\ reqs' = [reqs EXCEPT
                ![r].pc = "getSchema",
                ![r].sanitizedData =
                  SanitizedData(BodyOf(reqs[r].request), reqs[r].clientIp),
                ![r].stages = Append(@, "sanitize")]
          /\ running' = 0
  /\ UNCHANGED <<now, rateLimitStore, call>>

\* getSchema() rejects, or new services.ItemsService(...) throws: the outer
\* catch logs the error and answers 500.
SchemaFails(r, error) ==
  /\ running = 0
  /\ reqs[r].pc = "getSchema"
  /\ reqs' = [reqs EXCEPT ![r].pc = "done",
                          ![r].responses = Append(@, InternalError),
                          ![r].logged = Append(@, error)]
  /\ UNCHANGED <<now, rateLimitStore, running, call>>

\* getSchema() resolves: the handler resumes, constructs the ItemsService
\* and calls createOne(sanitizedData), suspending at that await.
SchemaResolves(r) ==
  /\ running = 0
  /\ reqs[r].pc = "getSchema"
  /\ reqs' = [reqs EXCEPT ![r].pc = "createOne",
                          ![r].stages = Append(@, "storage"),
                          ![r].created = Append(@, reqs[r].sanitizedData)]
  /\ UNCHANGED <<now, rateLimitStore, running, call>>

\* createOne rejects and the rejection is swallowed: the handler goes on to
\* the notification.
CreateFailsSwallowed(r) ==
  /\ running = 0
  /\ reqs[r].pc = "createOne"
  /\ reqs' = [reqs EXCEPT ![r].pc = "send",
                          ![r].stages = Append(@, "notify"),
                          ![r].mails = Append(@, MailOf(reqs[r].sanitizedData)),
                          ![r].logged = Append(@, "createOne")]
  /\ UNCHANGED <<now, rateLimitStore, running, call>>

\* createOne rejects and the outer catch answers with the error's message.
CreateFailsLeaks(r) ==
  /\ running = 0
  /\ reqs[r].pc = "createOne"
  /\ reqs' = [reqs EXCEPT ![r].pc = "done",
                          ![r].responses = Append(@, Response(500, [message |-> "createOne"])),
                          ![r].logged = Append(@, "createOne")]
  /\ UNCHANGED <<now, rateLimitStore, running, call>>

\* createOne rejects: the outer catch logs the error and answers 500.
CreateFails(r) ==
  /\ running = 0
  /\ reqs[r].pc = "createOne"
  /\ reqs' = [reqs EXCEPT ![r].pc = "done",
                          ![r].responses = Append(@, InternalError),
                          ![r].logged = Append(@, "createOne")]
  /\ UNCHANGED <<now, rateLimitStore, running, call>>

\* createOne resolves: the handler constructs the MailService and calls
\* send(...), suspending at that await.
CreateResolves(r) ==
  /\ running = 0
  /\ reqs[r].pc = "createOne"
  /\ reqs' = [reqs EXCEPT ![r].pc = "send",
                          ![r].stored = TRUE,
                          ![r].stages = Append(@, "notify"),
                          ![r].mails = Append(@, MailOf(reqs[r].sanitizedData))]
  /\ UNCHANGED <<now, rateLimitStore, running, call>>

\* createOne resolves and new services.MailService(...) throws: the inner
\* catch logs it and the handler answers 200.
MailServiceThrows(r) ==
  /\ running = 0
  /\ reqs[r].pc = "createOne"
  /\ reqs' = [reqs EXCEPT ![r].pc = "done",
                          ![r].stored = TRUE,
                          ![r].stages = Append(@, "notify"),
                          ![r].responses = Append(@, SuccessResponse),
                          ![r].logged = Append(@, "MailService")]
  /\ UNCHANGED <<now, rateLimitStore, running, call>>

\* mailService.send resolves: the handler answers 200.
SendResolves(r) ==
  /\ running = 0
  /\ reqs[r].pc = "send"
  /\ reqs' = [reqs EXCEPT ![r].pc = "done",
                          ![r].responses = Append(@, SuccessResponse)]
  /\ UNCHANGED <<now, rateLimitStore, running, call>>

\* mailService.send rejects and the rejection reaches the outer catch.
SendFailsEscapes(r) ==
  /\ running = 0
  /\ reqs[r].pc = "send"
  /\ reqs' = [reqs EXCEPT ![r].pc = "done",
                          ![r].responses = Append(@, InternalError),
                          ![r].logged = Append(@, "send")]
  /\ UNCHANGED <<now, rateLimitStore, running, call>>

\* mailService.send rejects: the inner catch logs it, the handler answers 200.
SendFails(r) ==
  /\ running = 0
  /\ reqs[r].pc = "send"
  /\ reqs' = [reqs EXCEPT ![r].pc = "done",
                          ![r].responses = Append(@, SuccessResponse),
                          ![r].logged = Append(@, "send")]
  /\ UNCHANGED <<now, rateLimitStore, running, call>>

\* The clock advances by d milliseconds. Date.now() is read only in
\* isRateLimited, once per request, so time passing while a handler holds
\* the thread is time passing before it started or after it let go.
Tick(d) ==
  /\ running = 0
  /\ now' = now + d
  /\ UNCHANGED <<rateLimitStore, running, reqs, call>>

\* --------------------------------------------------------------- inputs

Ip1 == <<"1", "0", ".", "0", ".", "0", ".", "1">>

Ip2 == <<"1", "0", ".", "0", ".", "0", ".", "2">>

\* "10.0.0.1, 10.0.0.9": a forwarded-for chain whose first entry is Ip1.
Chain == Ip1 \o <<",", " ">> \o <<"1", "0", ".", "0", ".", "0", ".", "9">>

\* The accepted submission of the specification's scenario.
MarcoBody ==
  [honeypot |-> Undefined,
   name |-> Str(<<"M", "a", "r", "c", "o", " ", "R", "o", "s", "s", "i">>),
   email |-> Str(<<"M", "a", "r", "c", "o", "@", "E", "x", "a", "m", "p", "l", "e", ".", "c", "o", "m">>),
   phone |-> Str(<<"+", "3", "9", " ", "0", "6", " ", "1", "2", "3", "4", "5", "6", "7">>),
   subject |-> Str(<<"i", "n", "f", "o">>),
   message |-> Str(<<"I", " ", "w", "a", "n", "t", " ", "i", "n", "f", "o", "r", "m", "a", "t", "i", "o", "n", " ", "a", "b", "o", "u", "t", " ", "c", "o", "h", "o", "u", "s", "i", "n", "g", ".">>)]

\* The rejected submission of the specification's scenario.
ImgBody ==
  [honeypot |-> Undefined,
   name |-> Str(<<"<", "i", "m", "g", " ", "o", "n", "e", "r", "r", "o", "r", "=", "a", "l", "e", "r", "t", "(", "1", ")", ">">>),
   email |-> Str(<<"t", "e", "s", "t", "@", "e", "x", "a", "m", "p", "l", "e", ".", "c", "o", "m">>),
   phone |-> Undefined,
   subject |-> Str(<<"i", "n", "f", "o">>),
   message |-> Str(<<"T", "e", "s", "t", " ", "m", "e", "s", "s", "a", "g", "e", " ", "c", "o", "n", "t", "e", "n", "t", " ", "h", "e", "r", "e", ".">>)]

\* A bot's submission: the decoy field filled, valid otherwise.
BotBody == [MarcoBody EXCEPT !.honeypot = Str(<<"b", "o", "t">>)]

\* A bot's submission with nothing but the decoy field.
BotOnlyBody == [EmptyObject EXCEPT !.honeypot = Num(1)]

\* A submission with markup inside an otherwise long enough message and a
\* blank phone.
MarkupBody ==
  [MarcoBody EXCEPT
     !.phone = Str(<<" ", " ">>),
     !.subject = Str(<<"v", "i", "s", "i", "t">>),
     !.message = Str(<<" ", "<", "b", ">", "H", "e", "l", "l", "o", "<", "/", "b", ">", " ", "f", "r", "o", "m", " ", "m", "e", "\n">>)]

\* A submission whose phone is a number, not a string.
NumberPhoneBody == [MarcoBody EXCEPT !.phone = Num(39)]

\* A submission failing on several fields at once.
BadBody ==
  [MarcoBody EXCEPT
     !.email = Str(<<"a", "@", "b">>),
     !.phone = Str(<<"c", "a", "l", "l">>),
     !.subject = Str(<<"s", "p", "a", "m">>),
     !.message = Str(<<"s", "h", "o", "r", "t">>)]

Req(xff, ip, body) == [xff |-> xff, ip |-> ip, body |-> body]

\* The requests of the general workload: every kind of body, and every way
\* the identity is resolved.
Requests ==
  { Req(Str(Chain), Str(Ip2), MarcoBody),
    Req(Undefined, Str(Ip2), MarkupBody),
    Req(Str(Ip1), Undefined, ImgBody),
    Req(Str(<<>>), Undefined, BadBody),
    Req(Undefined, Undefined, Undefined),
    Req(Str(Ip1), Str(Ip2), BotBody),
    Req(Undefined, Str(Ip2), BotOnlyBody),
    Req(Undefined, Str(Ip1), NumberPhoneBody),
    Req(Num(7), Str(Ip1), MarcoBody) }

\* A short accepted submission.
ShortBody ==
  [EmptyObject EXCEPT
     !.name = Str(<<"A", "l">>),
     !.email = Str(<<" ", "a", "@", "B", ".", "i", "t">>),
     !.subject = Str(<<"o", "t", "h", "e", "r">>),
     !.message = Str(<<" ", "<", "i", ">", "0", "1", "2", "3", "4", "5", "6", "7", "8", "9">>)]

\* A bot's short submission: the decoy field filled, valid otherwise.
TrappedBody == [ShortBody EXCEPT !.honeypot = Str(<<"x">>)]

\* A short rejected submission.
NamelessBody == [ShortBody EXCEPT !.name = Str(<<"<", ">">>)]

\* The requests of a burst: two clients, trapped and invalid submissions
\* (each answered before the handler's first await).
BurstRequests ==
  { Req(Str(Ip1), Undefined, BotOnlyBody),
    Req(Undefined, Str(Ip2), NamelessBody) }

\* The requests of a race: one client, accepted, trapped and invalid
\* submissions.
RaceRequests ==
  { Req(Str(Ip1), Undefined, ShortBody),
    Req(Str(Ip1), Undefined, TrappedBody),
    Req(Str(Ip1), Undefined, NamelessBody) }

\* ------------------------------------------------------- specifications

NumReqs == 2

MaxBurst == 5

NumRace == 4

NumLive == 1

MaxTicks == 2

\* The steps of the clock: a millisecond, and the length of the window.
Steps == {1, RATE_LIMIT_WINDOW_MS}

\* The number of steps the clock has taken.
Ticks == (now % RATE_LIMIT_WINDOW_MS) + (now \div RATE_LIMIT_WINDOW_MS)

Resume ==
  \/ \E r \in 1..Len(reqs) : \E e \in {"getSchema", "ItemsService"} : SchemaFails(r, e)
  \/ \E r \in 1..Len(reqs) : SchemaResolves(r)
  \/ \E r \in 1..Len(reqs) : CreateFails(r)
  \/ \E r \in 1..Len(reqs) : CreateResolves(r)
  \/ \E r \in 1..Len(reqs) : MailServiceThrows(r)
  \/ \E r \in 1..Len(reqs) : SendResolves(r)
  \/ \E r \in 1..Len(reqs) : SendFails(r)

Run ==
  \/ \E r \in 1..Len(reqs) : RateCheck(r)
  \/ \E r \in 1..Len(reqs) : Honeypot(r)
  \/ \E r \in 1..Len(reqs) : Validate(r)

\* The general workload: few requests of every kind, within milliseconds.
Next ==
  \/ \E q \in Requests : Len(reqs) < NumReqs /\ Receive(q)
  \/ Run
  \/ \E r \in 1..Len(reqs) : Sanitize(r)
  \/ Resume
  \/ now < MaxTicks - 1 /\ Tick(1)

Spec == Init /\ [][Next]_vars

\* A burst: many requests of two clients over several windows, each
\* answered before its handler's first await.
NextBurst ==
  \/ \E q \in BurstRequests : Len(reqs) < MaxBurst /\ Receive(q)
  \/ Run
  \/ \E d \in Steps : Ticks < MaxTicks /\ Tick(d)

SpecBurst == Init /\ [][NextBurst]_vars

MaxWindowReqs == 7

\* The request of one client, rejected by validation.
WindowRequests == { Req(Str(Ip1), Undefined, NamelessBody) }

\* One client over several windows: more requests than two windows admit.
NextWindows ==
  \/ \E q \in WindowRequests : Len(reqs) < MaxWindowReqs /\ Receive(q)
  \/ Run
  \/ \E d \in Steps : Ticks < MaxTicks /\ Tick(d)

SpecWindows == Init /\ [][NextWindows]_vars

\* A submission whose message is long enough only by its markup.
TagMessageBody ==
  [ShortBody EXCEPT
     !.message = Str(<<"<", "b", ">", "H", "i", "<", "/", "b", ">", " ", "y", "o", "u">>)]

\* A submission with blanks around its name and its phone.
PaddedBody ==
  [ShortBody EXCEPT
     !.name = Str(<<" ", "A", "l", " ">>),
     !.phone = Str(<<" ", "+", "3", "9", " ", "0", "6", " ">>)]

\* The requests of the general workload and two more accepted submissions.
StoreRequests ==
  Requests \cup { Req(Str(Ip1), Undefined, TagMessageBody),
                  Req(Undefined, Str(Ip2), PaddedBody) }

\* Requests handled one after the other up to the storage write and the
\* notification.
NextStore ==
  \/ \E q \in StoreRequests : Len(reqs) < NumLive /\ Receive(q)
  \/ Run
  \/ \E r \in 1..Len(reqs) : Sanitize(r)
  \/ Resume
  \/ now < MaxTicks - 1 /\ Tick(1)

SpecStore == Init /\ [][NextStore]_vars

\* A race: more requests of one client than the quota, in flight together
\* at one instant.
NextRace ==
  \/ \E q \in RaceRequests : Len(reqs) < NumRace /\ Receive(q)
  \/ Run
  \/ \E r \in 1..Len(reqs) : Sanitize(r)
  \/ Resume

SpecRace == Init /\ [][NextRace]_vars

\* The general workload, request by request.
NextLive ==
  \/ \E q \in Requests : Len(reqs) < NumLive /\ Receive(q)
  \/ Run
  \/ \E r \in 1..Len(reqs) : Sanitize(r)
  \/ Resume
  \/ now < MaxTicks - 1 /\ Tick(1)

\* A step of a handler: a stage, or a continuation after an await.
HandlerStep ==
  \/ Run
  \/ \E r \in 1..Len(reqs) : Sanitize(r)
  \/ Resume

\* Node's event loop runs a handler that can run, and the promises of
\* getSchema, createOne and send settle.
SpecLive == Init /\ [][NextLive]_vars /\ WF_vars(HandlerStep)

\* A step of a handler other than the settling of mailService.send: a stage,
\* or the continuation after getSchema or createOne.
HandlerStepBeforeSend ==
  \/ Run
  \/ \E r \in 1..Len(reqs) : Sanitize(r)
  \/ \E r \in 1..Len(reqs) : \E e \in {"getSchema", "ItemsService"} : SchemaFails(r, e)
  \/ \E r \in 1..Len(reqs) : SchemaResolves(r)
  \/ \E r \in 1..Len(reqs) : CreateFails(r)
  \/ \E r \in 1..Len(reqs) : CreateResolves(r)
  \/ \E r \in 1..Len(reqs) : MailServiceThrows(r)

\* Node's event loop runs a handler that can run and the promises of getSchema
\* and createOne settle; the promise of mailService.send may stay pending.
SpecSendMayHang == Init /\ [][NextLive]_vars /\ WF_vars(HandlerStepBeforeSend)

\* ---------------------------------------------------------- direct calls

\* The handler's state when a function is called on its own.
Idle ==
  /\ now = 0
  /\ rateLimitStore = <<>>
  /\ running = 0
  /\ reqs = <<>>

\* The characters of the strings handed to stripHTML: the two brackets and
\* two other characters.
StripChars == {"<", ">", "a", "b"}

MaxStripLen == 6

MaxStripCalls == 2

\* The strings of at most n characters taken from chars.
StringsUpTo(n, chars) == UNION {[1..k -> chars] : k \in 0..n}

\* The arguments of stripHTML: every short string over StripChars, and
\* values that are not strings.
StripInputs ==
  {Str(str) : str \in StringsUpTo(MaxStripLen, StripChars)}
    \cup {Undefined, Null, Num(7), Obj}

InitStrip ==
  /\ Idle
  /\ call \in {[fn |-> "stripHTML", arg |-> v, outs |-> <<>>] : v \in StripInputs}

\* stripHTML(x), and then stripHTML of the string it returned.
CallStripHTML ==
  /\ call.fn = "stripHTML"
  /\ Len(call.outs) < MaxStripCalls
  /\ call' = [call EXCEPT !.outs =
                Append(@, stripHTML(IF call.outs = <<>> THEN call.arg
                                    ELSE Str(call.outs[Len(call.outs)])))]
  /\ UNCHANGED <<now, rateLimitStore, running, reqs>>

SpecStrip == InitStrip /\ [][CallStripHTML]_vars

MaxPad == 1

\* n times the character c.
Rep(c, n) == [i \in 1..n |-> c]

\* str with k blanks before it and k blanks after it.
Pad(str, k) == Rep(" ", k) \o str \o Rep(" ", k)

\* The strings of cores with up to MaxPad blanks on each side.
Padded(cores) == {Str(Pad(core, k)) : core \in cores, k \in 0..MaxPad}

\* Names: one and two letters, the longest name and one letter more, markup;
\* no name, and a number.
Names ==
  Padded({<<"A">>, <<"A", "l">>, Rep("a", NAME_MAX), Rep("a", NAME_MAX + 1),
          <<"<", "b", ">">>})
    \cup {Undefined, Num(5)}

\* Emails: an address, one without a dot in its domain, one with a blank
\* inside; no email.
Emails ==
  Padded({<<"a", "@", "B", ".", "i", "t">>, <<"a", "@", "b">>,
          <<"a", " ", "b", "@", "c", ".", "i", "t">>})
    \cup {Undefined}

\* Phones: none, blank, a number in digits, letters, and a number value.
Phones ==
  {Undefined, Str(<<" ", " ">>), Str(<<"+", "3", "9", " ", "0", "6">>),
   Str(<<"c", "a", "l", "l">>), Num(39)}

Subjects == {Str(<<"i", "n", "f", "o">>), Str(<<"s", "p", "a", "m">>), Undefined}

\* Messages: the shortest and the longest message, one character less and
\* one more; no message.
Messages ==
  Padded({Rep("x", MESSAGE_MIN - 1), Rep("x", MESSAGE_MIN),
          Rep("x", MESSAGE_MAX), Rep("x", MESSAGE_MAX + 1)})
    \cup {Undefined}

\* The arguments of validateFormData: every combination of the field values.
ValidateInputs ==
  {[honeypot |-> Undefined, name |-> n, email |-> e, phone |-> p,
    subject |-> sb, message |-> m] :
     n \in Names, e \in Emails, p \in Phones, sb \in Subjects, m \in Messages}

InitValidate ==
  /\ Idle
  /\ call \in {[fn |-> "validateFormData", arg |-> data, outs |-> <<>>] :
                 data \in ValidateInputs}

\* validateFormData(data)
CallValidateFormData ==
  /\ call.fn = "validateFormData"
  /\ call.outs = <<>>
  /\ call' = [call EXCEPT !.outs = <<validateFormData(call.arg)>>]
  /\ UNCHANGED <<now, rateLimitStore, running, reqs>>

SpecValidate == InitValidate /\ [][CallValidateFormData]_vars

\* ------------------------------------------------------------- vocabulary

Ids == 1..Len(reqs)

Done(r) == reqs[r].pc = "done"

\* The request went through isRateLimited (identity resolution did not throw).
RateChecked(r) == Len(reqs[r].stages) >= 2

Admitted(r) == RateChecked(r) /\ ~reqs[r].limited

Rejected(r) == RateChecked(r) /\ reqs[r].limited

SameClient(p, r) == reqs[p].clientIp = reqs[r].clientIp

\* The attempts of the same client before request r, in arrival order.
EarlierAttempts(r) ==
  {p \in 1..(r - 1) : RateChecked(p) /\ SameClient(p, r)}

\* The start of the fixed window an attempt falls in: the time of the
\* client's first attempt, or of its first attempt made after the previous
\* window had elapsed.
RECURSIVE WindowOf(_)
WindowOf(r) ==
  IF EarlierAttempts(r) = {} THEN reqs[r].at
  ELSE LET p == CHOOSE p \in EarlierAttempts(r) :
                  \A q \in EarlierAttempts(r) : q <= p
           w == WindowOf(p)
       IN IF reqs[r].at - w > RATE_LIMIT_WINDOW_MS THEN reqs[r].at ELSE w

\* The attempts of the same client before r in r's window.
EarlierInWindow(r) == {p \in EarlierAttempts(r) : WindowOf(p) = WindowOf(r)}

IsLastAttempt(r) ==
  \A p \in Ids : RateChecked(p) /\ SameClient(p, r) => p <= r

Min(a, b) == IF a <= b THEN a ELSE b

HoneypotSet(r) == Truthy(BodyOf(reqs[r].request).honeypot)

BodyValid(r) == validateFormData(BodyOf(reqs[r].request)).valid

StatusOf(r) == reqs[r].responses[1].status

InFlight(r) == reqs[r].pc \in {"getSchema", "createOne", "send"}

Stages ==
  <<"identity", "rate", "honeypot", "validate", "sanitize", "storage", "notify">>

IsPrefix(s, t) == Len(s) <= Len(t) /\ s = SubSeq(t, 1, Len(s))

StageRan(r, stage) == \E i \in 1..Len(reqs[r].stages) : reqs[r].stages[i] = stage

\* ------------------------------------------------------------------ C1

\* C1: for one identity, the attempts that fall within one window are
\* admitted while fewer than RATE_LIMIT_MAX (3) earlier attempts fell in it
\* and rejected from then on; the first attempt after the window has elapsed
\* is admitted and opens a new window, the entry holding count 1 and that
\* attempt's time.
C1_FixedWindowSequence ==
  \A r \in Ids :
    RateChecked(r) =>
      /\ reqs[r].limited <=> Cardinality(EarlierInWindow(r)) >= RATE_LIMIT_MAX
      /\ IsLastAttempt(r) =>
           /\ reqs[r].clientIp \in DOMAIN rateLimitStore
           /\ rateLimitStore[reqs[r].clientIp] =
                [count |-> Min(Cardinality(EarlierInWindow(r)) + 1, RATE_LIMIT_MAX),
                 firstRequest |-> WindowOf(r)]

\* Three admitted, a fourth rejected, and a later attempt of the same client
\* admitted as the first of a new window.
C1_Witness ==
  \E r \in Ids : \E p \in EarlierAttempts(r) :
    /\ Rejected(p)
    /\ Cardinality({q \in EarlierAttempts(p) : Admitted(q)}) = RATE_LIMIT_MAX
    /\ Admitted(r)
    /\ reqs[r].at - WindowOf(p) > RATE_LIMIT_WINDOW_MS
    /\ IsLastAttempt(r)
    /\ rateLimitStore[reqs[r].clientIp] = [count |-> 1, firstRequest |-> reqs[r].at]

\* ------------------------------------------------------------------ C2

Clients == {reqs[r].clientIp : r \in {x \in Ids : RateChecked(x)}}

Attempts(ip) == {r \in Ids : RateChecked(r) /\ reqs[r].clientIp = ip}

InOneWindow(ip) ==
  \A p \in Attempts(ip) : \A r \in Attempts(ip) :
    reqs[r].at - reqs[p].at <= RATE_LIMIT_WINDOW_MS

\* C2: of N attempts of one identity made within one window, whatever the
\* interleaving of their handlers, exactly min(N, RATE_LIMIT_MAX) are
\* admitted: with N > RATE_LIMIT_MAX, RATE_LIMIT_MAX are admitted and
\* N - RATE_LIMIT_MAX rejected.
C2_NoOverAdmission ==
  \A ip \in Clients :
    InOneWindow(ip) =>
      LET n == Cardinality(Attempts(ip))
          admitted == Cardinality({r \in Attempts(ip) : Admitted(r)})
          rejected == Cardinality({r \in Attempts(ip) : Rejected(r)})
      IN /\ n <= RATE_LIMIT_MAX => admitted = n /\ rejected = 0
         /\ n > RATE_LIMIT_MAX =>
              admitted = RATE_LIMIT_MAX /\ rejected = n - RATE_LIMIT_MAX

\* More attempts than the quota, made while RATE_LIMIT_MAX handlers of the
\* same client are suspended at an await.
C2_Witness ==
  \E ip \in Clients :
    /\ Cardinality(Attempts(ip)) > RATE_LIMIT_MAX
    /\ Cardinality({r \in Attempts(ip) : InFlight(r)}) = RATE_LIMIT_MAX
    /\ \E r \in Attempts(ip) : Rejected(r)

\* ------------------------------------------------------------------ C3

\* Request r is about to be rate-checked and the step taken is that check.
Checking(r) == running = r /\ reqs[r].pc = "rate" /\ reqs' # reqs

AtBoundaryWithFullQuota(r) ==
  /\ reqs[r].clientIp \in DOMAIN rateLimitStore
  /\ rateLimitStore[reqs[r].clientIp].count >= RATE_LIMIT_MAX
  /\ now - rateLimitStore[reqs[r].clientIp].firstRequest = RATE_LIMIT_WINDOW_MS

WindowElapsed(r) ==
  /\ reqs[r].clientIp \in DOMAIN rateLimitStore
  /\ now - rateLimitStore[reqs[r].clientIp].firstRequest > RATE_LIMIT_WINDOW_MS

ResetAndAdmitted(r) ==
  /\ ~reqs'[r].limited
  /\ rateLimitStore'[reqs[r].clientIp] = [count |-> 1, firstRequest |-> now]

\* C3 as claimed: an attempt exactly at the window boundary, the quota being
\* used up, resets the entry to count 1 at the current time and is admitted.
C3_BoundaryOpensNewWindow ==
  [][\A r \in Ids :
       Checking(r) /\ AtBoundaryWithFullQuota(r) => ResetAndAdmitted(r)]_vars

\* C3 as amended: an attempt exactly at the window boundary
\* (now - firstRequest = RATE_LIMIT_WINDOW_MS), the quota being used up, is
\* still inside the old window: it is rejected and the entry is unchanged;
\* an attempt with now - firstRequest > RATE_LIMIT_WINDOW_MS resets the entry
\* to count 1 at the current time and is admitted.
C3_BoundaryStaysInOldWindow ==
  [][\A r \in Ids :
       /\ Checking(r) /\ AtBoundaryWithFullQuota(r) =>
            reqs'[r].limited /\ rateLimitStore' = rateLimitStore
       /\ Checking(r) /\ WindowElapsed(r) => ResetAndAdmitted(r)]_vars

\* An attempt rejected exactly RATE_LIMIT_WINDOW_MS after its window opened.
C3_Witness ==
  \E r \in Ids :
    /\ Rejected(r)
    /\ IsLastAttempt(r)
    /\ reqs[r].at - rateLimitStore[reqs[r].clientIp].firstRequest
         = RATE_LIMIT_WINDOW_MS

\* ------------------------------------------------------------------ C4

\* C4: every entry of the rate-limit table has 1 <= count <= RATE_LIMIT_MAX.
C4_CountInRange ==
  \A ip \in DOMAIN rateLimitStore :
    /\ rateLimitStore[ip].count >= 1
    /\ rateLimitStore[ip].count <= RATE_LIMIT_MAX

\* Two clients, one with its quota used up and an attempt rejected, the
\* other with a single attempt.
C4_Witness ==
  \E a \in DOMAIN rateLimitStore : \E b \in DOMAIN rateLimitStore :
    /\ rateLimitStore[a].count = RATE_LIMIT_MAX
    /\ rateLimitStore[b].count = 1
    /\ \E r \in Ids : Rejected(r) /\ reqs[r].clientIp = a

\* ------------------------------------------------------------------ C5

\* A rejected attempt is within the window length of an earlier admitted
\* attempt of the same client.
LockOutBounded ==
  \A r \in Ids :
    Rejected(r) =>
      \E p \in EarlierAttempts(r) :
        Admitted(p) /\ reqs[r].at - reqs[p].at <= RATE_LIMIT_WINDOW_MS

\* C5: a rejected attempt leaves the rate-limit table unchanged (count and
\* firstRequest of every entry), so a rejection is never further than the
\* window length from an admitted attempt of the same client.
C5_RejectionChangesNothing ==
  /\ [][\A r \in Ids :
          Checking(r) /\ reqs'[r].limited => rateLimitStore' = rateLimitStore]_vars
  /\ []LockOutBounded

\* An attempt rejected later than the start of its window, the entry still
\* holding the full count and the old start.
C5_Witness ==
  \E r \in Ids :
    /\ Rejected(r)
    /\ IsLastAttempt(r)
    /\ rateLimitStore[reqs[r].clientIp].count = RATE_LIMIT_MAX
    /\ rateLimitStore[reqs[r].clientIp].firstRequest < reqs[r].at

\* ------------------------------------------------------------------ C6

\* The request was caught by the honeypot check.
Trapped(r) == Done(r) /\ Admitted(r) /\ HoneypotSet(r)

\* The request was accepted: stored, and answered.
Accepted(r) == Done(r) /\ reqs[r].stored

\* C6: a request caught by the honeypot is answered exactly as an accepted
\* one: same status, same body.
C6_HoneypotIndistinguishable ==
  \A r \in Ids : \A p \in Ids :
    Trapped(r) /\ Accepted(p) => reqs[r].responses = reqs[p].responses

\* ------------------------------------------------------------------ C7

\* C7: createOne and send are called for a request only if the limiter
\* admitted it, its honeypot field is falsy and its body is valid.
C7_CollaboratorsOnlyAfterAdmission ==
  \A r \in Ids :
    reqs[r].created # <<>> \/ reqs[r].mails # <<>> =>
      Admitted(r) /\ ~HoneypotSet(r) /\ BodyValid(r)

\* A request stored and notified, beside a rate-limited valid request, a
\* trapped one and an invalid one that reached neither collaborator.
C7_Witness ==
  /\ \E r \in Ids : reqs[r].created # <<>> /\ reqs[r].mails # <<>>
  /\ \E r \in Ids :
       Done(r) /\ Rejected(r) /\ ~HoneypotSet(r) /\ BodyValid(r)
         /\ reqs[r].created = <<>> /\ reqs[r].mails = <<>>
  /\ \E r \in Ids : Trapped(r) /\ reqs[r].created = <<>> /\ reqs[r].mails = <<>>
  /\ \E r \in Ids :
       Done(r) /\ Admitted(r) /\ ~HoneypotSet(r) /\ ~BodyValid(r)
         /\ reqs[r].created = <<>> /\ reqs[r].mails = <<>>

\* ------------------------------------------------------------------ C8

\* The stages run so far are an initial part of the fixed order, a handler
\* that has ended has sent exactly one response and one that has not has
\* sent none, and a request that failed a stage stopped at that stage.
StagesInOrder ==
  \A r \in Ids :
    /\ IsPrefix(reqs[r].stages, Stages)
    /\ Len(reqs[r].responses) = (IF Done(r) THEN 1 ELSE 0)
    /\ Done(r) /\ Rejected(r) => reqs[r].stages = SubSeq(Stages, 1, 2)
    /\ Trapped(r) => reqs[r].stages = SubSeq(Stages, 1, 3)
    /\ Done(r) /\ StatusOf(r) = 400 => reqs[r].stages = SubSeq(Stages, 1, 4)
    /\ Done(r) /\ StatusOf(r) = 500 => ~reqs[r].stored

\* A step runs at most one more stage of a request, and none of a request
\* that has been answered.
OneStageAtATime ==
  \A r \in Ids :
    /\ Len(reqs'[r].stages) <= Len(reqs[r].stages) + 1
    /\ Done(r) => reqs'[r] = reqs[r]

\* Every request received has been answered.
AllAnswered == \A r \in Ids : Done(r)

C9_RateLimitedOrInvalid ==
  \A r \in Ids :
    Done(r) =>
      /\ Rejected(r) =>
           /\ StatusOf(r) = 429
           /\ ~StageRan(r, "validate")
           /\ reqs[r].validation = NoValidation
      /\ Admitted(r) /\ ~HoneypotSet(r) /\ ~BodyValid(r) =>
           /\ StatusOf(r) = 400
           /\ reqs[r].responses[1].body.errors
                = validateFormData(BodyOf(reqs[r].request)).errors
           /\ DOMAIN reqs[r].responses[1].body.errors # {}

\* An invalid body answered 400 with its errors, and the same invalid body
\* answered 429 once the quota is used up.
C9_Witness ==
  \E r \in Ids : \E p \in Ids :
    /\ Done(r) /\ Admitted(r) /\ ~HoneypotSet(r) /\ ~BodyValid(r)
    /\ StatusOf(r) = 400
    /\ Done(p) /\ Rejected(p) /\ reqs[p].request = reqs[r].request
    /\ StatusOf(p) = 429

\* ----------------------------------------------------------------- C10

\* createOne was called for the request and rejected.
StorageFailed(r) == Done(r) /\ reqs[r].created # <<>> /\ ~reqs[r].stored

\* C10: a request whose storage write fails is answered 500 and no mail is
\* sent for it; a mail is sent, or the mail service constructed, only for a
\* request whose storage write has succeeded.
C10_StorageFailureNoNotification ==
  \A r \in Ids :
    /\ StorageFailed(r) =>
         StatusOf(r) = 500 /\ reqs[r].mails = <<>> /\ ~StageRan(r, "notify")
    /\ reqs[r].mails # <<>> \/ StageRan(r, "notify") =>
         reqs[r].stored /\ Len(reqs[r].created) = 1

\* One request whose storage write failed, and one whose mail was sent.
C10_Witness ==
  /\ \E r \in Ids : StorageFailed(r) /\ StatusOf(r) = 500
  /\ \E r \in Ids : reqs[r].mails # <<>> /\ reqs[r].stored

\* ----------------------------------------------------------------- C11

\* The notification failed: the inner catch logged the MailService
\* constructor's throw or the rejection of send.
NotificationFailed(r) ==
  \E i \in 1..Len(reqs[r].logged) : reqs[r].logged[i] \in {"MailService", "send"}

\* C11: after a successful storage write the client is answered 200 with the
\* success body whether the notification succeeded or failed (MailService
\* constructor throwing, send rejecting), and never 500.
C11_NotificationFailureSwallowed ==
  \A r \in Ids : \A p \in Ids :
    Done(r) /\ reqs[r].stored =>
      /\ StatusOf(r) = 200
      /\ Done(p) /\ reqs[p].stored => reqs[p].responses = reqs[r].responses

\* Two stored requests, one notified and one whose send was rejected, were
\* answered alike.
C11_Witness ==
  /\ \E r \in Ids : \E p \in Ids :
       /\ Done(r) /\ reqs[r].stored /\ ~NotificationFailed(r)
       /\ Done(p) /\ reqs[p].stored /\ reqs[p].logged = <<"send">>
       /\ reqs[p].responses = reqs[r].responses

\* ----------------------------------------------------------------- C12

\* C12: once the storage write of a request has succeeded its response is
\* eventually sent, even if the notification send never completes.
C12_ResponseDoesNotWaitOnNotification ==
  \A r \in 1..NumLive :
    [](r \in Ids /\ reqs[r].stored => <>(r \in Ids /\ Done(r)))

\* ----------------------------------------------------------------- C13

\* A substring of the shape '<...>': a '<' with a '>' somewhere after it.
HasTag(str) ==
  \E i \in 1..Len(str) : \E j \in (i + 1)..Len(str) :
    str[i] = "<" /\ str[j] = ">"

\* Position k of str lies in a tag: between a '<' and the first '>' after
\* it, both included.
InTag(str, k) ==
  \E i \in 1..k : \E j \in k..Len(str) :
    /\ i < j
    /\ str[i] = "<" /\ str[j] = ">"
    /\ \A m \in (i + 1)..(j - 1) : str[m] # ">"

\* The characters of str that lie in no tag, in their order.
WithoutTags(str) ==
  LET keep == {k \in 1..Len(str) : ~InTag(str, k)}
      Nth(n) == CHOOSE k \in keep : Cardinality({m \in keep : m < k}) = n - 1
  IN  [n \in 1..Cardinality(keep) |-> str[Nth(n)]]

\* The records handed to itemsService.createOne by request r.
Records(r) == {reqs[r].created[i] : i \in 1..Len(reqs[r].created)}

\* C13: the record passed to storage is the sanitized copy of the body: name,
\* phone and message are the trimmed inputs without their tags and hold no
\* '<...>' substring, the email is the trimmed input in lower case, an absent
\* phone is stored as the empty string.
C13_StoredRecordIsSanitized ==
  \A r \in Ids : \A d \in Records(r) :
    LET body == BodyOf(reqs[r].request)
    IN  /\ ~HasTag(d.name) /\ ~HasTag(d.phone) /\ ~HasTag(d.message)
        /\ d.name = WithoutTags(Trim(body.name.s))
        /\ d.message = WithoutTags(Trim(body.message.s))
        /\ d.phone = IF Truthy(body.phone) THEN WithoutTags(Trim(body.phone.s))
                     ELSE <<>>
        /\ d.email = ToLowerCase(Trim(body.email.s))
        /\ \A i \in 1..Len(d.email) : d.email[i] \notin Upper
        /\ d.email # <<>> =>
             Head(d.email) \notin WhiteSpace /\ d.email[Len(d.email)] \notin WhiteSpace

\* A record was stored for a body without phone whose message held a tag and
\* whose email held a capital letter and a leading blank.
C13_Witness ==
  \E r \in Ids : \E d \in Records(r) :
    LET body == BodyOf(reqs[r].request)
    IN  /\ ~Truthy(body.phone) /\ d.phone = <<>>
        /\ HasTag(body.message.s) /\ Len(d.message) < Len(Trim(body.message.s))
        /\ \E i \in 1..Len(body.email.s) : body.email.s[i] \in Upper
        /\ Len(d.email) < Len(body.email.s)

\* ----------------------------------------------------------------- C14

\* getSchema() rejected or the ItemsService could not be constructed: the
\* storage collaborator was not available to request r.
SchemaFailed(r) ==
  \E i \in 1..Len(reqs[r].logged) : reqs[r].logged[i] \in {"getSchema", "ItemsService"}

\* C14: a request that is admitted, has a falsy honeypot and passes
\* validation calls createOne exactly once (the storage collaborator being
\* available), no request calls it more than once, and a request whose
\* storage write succeeded is answered 200.
C14_StorageInvokedExactlyOnce ==
  \A r \in Ids :
    /\ Len(reqs[r].created) <= 1
    /\ Done(r) /\ Admitted(r) /\ ~HoneypotSet(r) /\ BodyValid(r) /\ ~SchemaFailed(r)
         => Len(reqs[r].created) = 1
    /\ Done(r) /\ reqs[r].stored => StatusOf(r) = 200

\* ----------------------------------------------------------------- C18

\* The phone the client sent with request r.
PhoneOf(r) == BodyOf(reqs[r].request).phone

\* No phone, or a string of nothing but white space.
PhoneAbsentOrBlank(v) == ~Truthy(v) \/ (IsString(v) /\ Trim(v.s) = <<>>)

\* A phone of the wrong shape (truthy, not a string) or a string that does
\* not match the phone pattern.
PhoneMalformed(v) ==
  /\ Truthy(v)
  /\ \/ ~IsString(v)
     \/ Trim(v.s) # <<>> /\ ~PhonePattern(Trim(v.s))

\* C18: an absent or blank phone never produces an error; a phone of the
\* wrong shape or not matching the pattern fails validation with
\* errors.phone set, is answered 400 and never reaches sanitization.
C18_PhoneOptionalButShapeChecked ==
  \A r \in Ids :
    StageRan(r, "validate") =>
      /\ PhoneAbsentOrBlank(PhoneOf(r)) => "phone" \notin DOMAIN reqs[r].validation.errors
      /\ PhoneMalformed(PhoneOf(r)) =>
           /\ "phone" \in DOMAIN reqs[r].validation.errors
           /\ ~StageRan(r, "sanitize")
           /\ Done(r) => StatusOf(r) = 400

\* ----------------------------------------------------------------- C19

\* C19: stripHTML is idempotent: stripping what stripHTML returned gives the
\* same string again.
C19_StripIdempotent ==
  call.fn = "stripHTML" =>
    \A i \in 2..Len(call.outs) : call.outs[i] = call.outs[1]

\* stripHTML removed a tag and left a bracket behind, and a second call
\* returned the same string.
C19_Witness ==
  /\ call.fn = "stripHTML" /\ IsString(call.arg)
  /\ Len(call.outs) = 2
  /\ call.outs[1] # call.arg.s
  /\ \E i \in 1..Len(call.outs[1]) : call.outs[1][i] \in {"<", ">"}
  /\ call.outs[2] = call.outs[1]

\* ----------------------------------------------------------------- C20

\* C20: for a string, stripHTML removes every tag-shaped substring, keeps the
\* other characters in their order and returns a string with no tag-shaped
\* substring left.
C20_StripRemovesEveryTag ==
  call.fn = "stripHTML" /\ IsString(call.arg) /\ call.outs # <<>> =>
    /\ call.outs[1] = WithoutTags(call.arg.s)
    /\ ~HasTag(call.outs[1])

\* stripHTML was given two adjacent tags among other characters and
\* returned two different characters.
C20_Witness ==
  /\ call.fn = "stripHTML" /\ IsString(call.arg) /\ call.outs # <<>>
  /\ \E i \in 1..(Len(call.arg.s) - 1) :
       /\ call.arg.s[i] = ">" /\ call.arg.s[i + 1] = "<"
       /\ InTag(call.arg.s, i) /\ InTag(call.arg.s, i + 1)
  /\ Len(call.outs[1]) = 2 /\ call.outs[1][1] # call.outs[1][2]

\* ----------------------------------------------------------------- C15

Fields == {"name", "email", "phone", "subject", "message"}

\* validateFormData has returned.
Validated == call.fn = "validateFormData" /\ call.outs # <<>>

\* The keys of the errors mapping validateFormData returned.
ErrorKeys == DOMAIN call.outs[1].errors

\* Field f of data judged on its own: whether validateFormData reports it
\* when the other fields are those of an accepted submission, and when the
\* other fields are all missing.
FailsAmongValid(f, data) ==
  f \in DOMAIN validateFormData([MarcoBody EXCEPT ![f] = data[f]]).errors

FailsAmongMissing(f, data) ==
  f \in DOMAIN validateFormData([EmptyObject EXCEPT ![f] = data[f]]).errors

\* C15: validateFormData judges the five fields independently and without
\* early exit: the keys of errors are exactly the fields that fail on their
\* own, whatever the other fields are, and valid is true exactly when errors
\* is empty.
C15_FieldsJudgedIndependently ==
  Validated =>
    /\ ErrorKeys \subseteq Fields
    /\ \A f \in Fields :
         /\ f \in ErrorKeys <=> FailsAmongValid(f, call.arg)
         /\ f \in ErrorKeys <=> FailsAmongMissing(f, call.arg)
    /\ call.outs[1].valid <=> ErrorKeys = {}

\* All five fields were reported at once.
C15_Witness == Validated /\ ErrorKeys = Fields

\* ----------------------------------------------------------------- C16

\* The characters the email pattern allows.
EmailChars == EmailLocalChars \cup EmailDomainChars \cup {"@"}

\* Every field of data, changed by touch (the identity, or trim), matches
\* its rule in the field table.
MatchesTable(data, touch(_)) ==
  /\ IsString(data.name) /\ NamePattern(touch(data.name.s))
  /\ IsString(data.email) /\ EmailPattern(touch(data.email.s))
  /\ \/ PhoneAbsentOrBlank(data.phone)
     \/ IsString(data.phone) /\ PhonePattern(touch(data.phone.s))
  /\ SubjectAllowed(data.subject)
  /\ IsString(data.message) /\ MessagePattern(touch(data.message.s))

AsSent(str) == str

\* C16 as stated: a submission whose every field, as sent, matches its rule
\* in the field table is valid with no errors.
C16_TableMatchIsValid ==
  Validated /\ MatchesTable(call.arg, AsSent) =>
    call.outs[1].valid /\ ErrorKeys = {}

\* C16: a submission whose every field matches its rule in the field table
\* once its surrounding white space is trimmed is valid with no errors.
C16_TrimmedTableMatchIsValid ==
  Validated /\ MatchesTable(call.arg, Trim) =>
    call.outs[1].valid /\ ErrorKeys = {}

\* A submission was found valid whose name and message are too long as
\* sent and within the limits once trimmed.
C16_Witness ==
  /\ Validated /\ MatchesTable(call.arg, Trim)
  /\ Len(call.arg.name.s) > NAME_MAX
  /\ Len(call.arg.message.s) > MESSAGE_MAX
  /\ call.outs[1].valid

\* ----------------------------------------------------------------- C17

\* The fields of data that are missing or that, changed by touch (the
\* identity, or trim), break their rule: a name with a bracket or too long,
\* an email with a character outside the allowed ones, a subject outside the
\* enumeration, a message too short or too long.
Breaking(data, touch(_)) ==
  {f \in {"name"} :
     \/ ~Truthy(data.name)
     \/ /\ IsString(data.name)
        /\ \/ \E i \in 1..Len(touch(data.name.s)) : touch(data.name.s)[i] \in {"<", ">"}
           \/ Len(touch(data.name.s)) > NAME_MAX}
    \cup {f \in {"email"} :
     \/ ~Truthy(data.email)
     \/ IsString(data.email) /\ ~AllIn(touch(data.email.s), EmailChars)}
    \cup {f \in {"subject"} :
     ~Truthy(data.subject) \/ ~SubjectAllowed(data.subject)}
    \cup {f \in {"message"} :
     \/ ~Truthy(data.message)
     \/ /\ IsString(data.message)
        /\ \/ Len(touch(data.message.s)) < MESSAGE_MIN
           \/ Len(touch(data.message.s)) > MESSAGE_MAX}

\* C17 as stated: a submission that misses a required field or has a field
\* that, as sent, breaks its rule is invalid and errors holds that field.
C17_RuleBreakIsReported ==
  Validated =>
    /\ Breaking(call.arg, AsSent) \subseteq ErrorKeys
    /\ Breaking(call.arg, AsSent) # {} => ~call.outs[1].valid

\* C17: a submission that misses a required field or has a field that,
\* once trimmed, breaks its rule is invalid and errors holds that field.
C17_TrimmedRuleBreakIsReported ==
  Validated =>
    /\ Breaking(call.arg, Trim) \subseteq ErrorKeys
    /\ Breaking(call.arg, Trim) # {} => ~call.outs[1].valid

\* Name, email, subject and message were reported: markup in the name, a
\* blank inside the email, an unknown subject and a message that is long
\* enough as sent and too short once trimmed.
C17_Witness ==
  /\ Validated
  /\ Breaking(call.arg, Trim) = {"name", "email", "subject", "message"}
  /\ IsString(call.arg.name) /\ HasTag(call.arg.name.s)
  /\ IsString(call.arg.email) /\ IsString(call.arg.subject)
  /\ IsString(call.arg.message) /\ Len(call.arg.message.s) >= MESSAGE_MIN
  /\ ~call.outs[1].valid /\ Breaking(call.arg, Trim) \subseteq ErrorKeys

\* ----------------------------------------------------------------- C21

\* C21: stripHTML is total: a call always returns, what it returns is a
\* string, and for an argument that is not a string it is the empty string.
C21_StripTotal ==
  call.fn = "stripHTML" =>
    /\ call.outs = <<>> => ENABLED CallStripHTML
    /\ \A i \in 1..Len(call.outs) : call.outs[i] \in Seq(StripChars)
    /\ ~IsString(call.arg) => \A i \in 1..Len(call.outs) : call.outs[i] = <<>>

\* stripHTML was called with a number and returned the empty string.
C21_Witness ==
  /\ call.fn = "stripHTML"
  /\ call.arg.t = "number"
  /\ call.outs # <<>> /\ call.outs[1] = <<>>

\* ----------------------------------------------------------------- C22

Unknown == <<"u", "n", "k", "n", "o", "w", "n">>

\* entry is the first entry of the comma-separated list str: the characters
\* of str before its first comma.
IsFirstEntry(entry, str) ==
  /\ IsPrefix(entry, str)
  /\ \A i \in 1..Len(entry) : entry[i] # ","
  /\ Len(entry) < Len(str) => str[Len(entry) + 1] = ","

\* The request carries a forwarded-for header whose first entry is not empty.
HasForwardedEntry(request) ==
  IsString(request.xff) /\ ~IsFirstEntry(<<>>, request.xff.s)

\* The request carries a connection address.
HasAddress(request) == IsString(request.ip) /\ request.ip.s # <<>>

\* The requests that went through the rate check under the key "unknown"
\* and were admitted.
AdmittedUnknown == {r \in Ids : Admitted(r) /\ reqs[r].clientIp = Unknown}

\* C22: the rate-limit key of a request is the first entry of its
\* forwarded-for header when that entry is not empty, otherwise its
\* connection address when present, otherwise "unknown"; the requests with
\* neither share the one entry "unknown" of the store.
C22_IdentityPrecedence ==
  /\ \A r \in Ids :
       LET q == reqs[r].request
           key == reqs[r].clientIp
       IN  ~IdentityThrows(q) =>
             /\ HasForwardedEntry(q) => IsFirstEntry(key, q.xff.s)
             /\ ~HasForwardedEntry(q) /\ HasAddress(q) => key = q.ip.s
             /\ ~HasForwardedEntry(q) /\ ~HasAddress(q) => key = Unknown
             /\ RateChecked(r) => key \in DOMAIN rateLimitStore
  /\ AdmittedUnknown # {} =>
       rateLimitStore[Unknown].count = Cardinality(AdmittedUnknown)

\* A request with an empty header and one with no header, both without
\* address, were counted in the one entry "unknown".
C22_Witness ==
  /\ \E r \in Ids : \E p \in Ids :
       /\ IsString(reqs[r].request.xff) /\ ~IsString(reqs[p].request.xff)
       /\ {r, p} \subseteq AdmittedUnknown
  /\ rateLimitStore[Unknown].count = 2

\* ----------------------------------------------------------------- C23

\* Request r ended in the outer catch while its identity was resolved.
FailedAtIdentity(r) ==
  /\ Done(r)
  /\ reqs[r].stages = <<"identity">>
  /\ StatusOf(r) = 500

Deciding(r) == reqs[r].pc \in {"rate", "honeypot", "validate", "sanitize"}

\* The request that is deciding is the last one that arrived, and every
\* request before it has left the synchronous part of the handler.
DecidedInArrivalOrder ==
  \A r \in Ids :
    Deciding(r) => r = Len(reqs) /\ \A p \in 1..(r - 1) : ~Deciding(p)

\* While request r is deciding, a step is a step of r: no request arrives
\* and no other request moves.
NoInterleaving ==
  \A r \in Ids :
    Deciding(r) =>
      /\ Len(reqs') = Len(reqs)
      /\ \A p \in Ids \ {r} : reqs'[p] = reqs[p]

\* The continuation of a storage or notification call of request p changes
\* neither the rate-limit table nor any other request.
PendingCallsApart ==
  \A p \in Ids :
    InFlight(p) /\ Len(reqs') = Len(reqs) /\ reqs'[p] # reqs[p] =>
      /\ rateLimitStore' = rateLimitStore
      /\ \A r \in Ids \ {p} : reqs'[r] = reqs[r]

\* C24: the admission decision of a request has no suspension point: it
\* runs without interleaving with a step of another request, decisions are
\* taken in arrival order and pending storage or notification calls of
\* other requests do not touch them.
C24_AdmissionRunsToCompletion ==
  /\ []DecidedInArrivalOrder
  /\ [][NoInterleaving /\ PendingCallsApart]_vars

\* A request is validated while the storage call of one earlier request and
\* the notification call of another are pending.
C24_Witness ==
  \E r \in Ids : \E p \in Ids : \E q \in Ids :
    /\ reqs[r].pc = "validate"
    /\ reqs[p].pc = "createOne"
    /\ reqs[q].pc = "send"

\* ----------------------------------------------------------------- C25

\* The errors that reach the outer catch: a TypeError thrown by the handler's
\* own code, and the failures of getSchema, ItemsService and createOne.
EscapingErrors == {"TypeError", "getSchema", "ItemsService", "createOne"}

\* An error of request r escaped to the outer catch.
Escaped(r) ==
  \E i \in 1..Len(reqs[r].logged) : reqs[r].logged[i] \in EscapingErrors

\* C25: a failure that escapes a stage is answered 500 with the one generic
\* body, and two requests that failed with different errors got identical
\* responses.
C25_GenericInternalError ==
  \A r \in Ids : \A p \in Ids :
    /\ Done(r) /\ Escaped(r) => reqs[r].responses = <<InternalError>>
    /\ Done(r) /\ StatusOf(r) = 500 => Escaped(r)
    /\ Done(r) /\ Done(p) /\ StatusOf(r) = 500 /\ StatusOf(p) = 500
         => reqs[r].responses = reqs[p].responses

\* A request whose createOne was rejected and a request that threw a
\* TypeError got the same response.
C25_Witness ==
  \E r \in Ids : \E p \in Ids :
    /\ Done(r) /\ reqs[r].logged = <<"createOne">>
    /\ Done(p) /\ reqs[p].logged = <<"TypeError">>
    /\ reqs[r].responses = reqs[p].responses
    /\ StatusOf(r) = 500

\* ----------------------------------------------------------------- C26

\* The attempts of client k admitted since the start of k's current window.
AdmittedInCurrentWindow(k) ==
  {r \in Ids : /\ Admitted(r)
               /\ reqs[r].clientIp = k
               /\ reqs[r].at >= rateLimitStore[k].firstRequest}

\* The entry of a client is made of that client's attempts alone.
EntryFromOwnHistory ==
  \A k \in DOMAIN rateLimitStore :
    /\ rateLimitStore[k].count = Cardinality(AdmittedInCurrentWindow(k))
    /\ \E r \in AdmittedInCurrentWindow(k) :
         reqs[r].at = rateLimitStore[k].firstRequest

\* A step changes or creates the entry of the client being checked only.
OnlyOwnEntryTouched ==
  /\ DOMAIN rateLimitStore \subseteq DOMAIN rateLimitStore'
  /\ \A k \in DOMAIN rateLimitStore' :
       k \notin DOMAIN rateLimitStore \/ rateLimitStore'[k] # rateLimitStore[k] =>
         \E r \in Ids : Checking(r) /\ reqs[r].clientIp = k

\* The table with the entries of every other client than k removed.
OwnEntry(k) == [j \in DOMAIN rateLimitStore \cap {k} |-> rateLimitStore[j]]

\* The decision on a request, and the entry it leaves, are those taken on a
\* table that holds only the entry of its client.
DecisionFromOwnEntry ==
  \A r \in Ids :
    Checking(r) =>
      LET k == reqs[r].clientIp
          alone == isRateLimited(OwnEntry(k), k, now)
      IN  /\ reqs'[r].limited = alone.limited
          /\ rateLimitStore'[k] = alone.store[k]

\* C26: entries are isolated per identity: an attempt of a client creates or
\* changes only that client's entry, and the decision depends only on the
\* attempts of that client.
C26_EntriesIsolated ==
  /\ []EntryFromOwnHistory
  /\ [][OnlyOwnEntryTouched /\ DecisionFromOwnEntry]_vars

\* One client is rejected with its quota used up while the other client has
\* been admitted since and holds a smaller count.
C26_Witness ==
  \E r \in Ids : \E p \in Ids :
    /\ Rejected(r) /\ Admitted(p) /\ r < p
    /\ ~SameClient(r, p)
    /\ rateLimitStore[reqs[r].clientIp].count = RATE_LIMIT_MAX
    /\ rateLimitStore[reqs[p].clientIp].count < RATE_LIMIT_MAX

\* ----------------------------------------------------------------- C27

\* Request p passed the limiter and then was trapped by the honeypot, failed
\* validation or failed in storage.
PassedAndFailed(p) ==
  /\ Admitted(p)
  /\ HoneypotSet(p) \/ ~BodyValid(p) \/ StorageFailed(p)

\* C27: a request that passes the limiter uses up one unit of quota whatever
\* happens to it afterwards: once RATE_LIMIT_MAX requests of a client in one
\* window were trapped, failed validation or failed in storage, the next
\* request of that client in the window is answered 429, be it valid or
\* trapped, and nothing is stored or sent for it.
C27_QuotaUsedWhateverFollows ==
  \A r \in Ids :
    /\ RateChecked(r)
    /\ Cardinality({p \in EarlierInWindow(r) : PassedAndFailed(p)}) >= RATE_LIMIT_MAX
    => /\ Rejected(r)
       /\ reqs[r].responses = <<TooManyRequests>>
       /\ reqs[r].created = <<>> /\ reqs[r].mails = <<>>

\* A valid request answered 429 after a trapped request, an invalid one and
\* one whose storage write failed.
C27_Witness ==
  \E r \in Ids :
    /\ Rejected(r) /\ BodyValid(r) /\ ~HoneypotSet(r)
    /\ \E p \in EarlierInWindow(r) : Admitted(p) /\ HoneypotSet(p)
    /\ \E p \in EarlierInWindow(r) : Admitted(p) /\ ~BodyValid(p)
    /\ \E p \in EarlierInWindow(r) : Admitted(p) /\ StorageFailed(p)
    /\ StatusOf(r) = 429

\* ----------------------------------------------------------------- C28

\* firstRequest of an entry changes only when the entry is reset after its
\* window has elapsed, and an entry is created with the time of the attempt.
WindowStartOnlyMoves ==
  \A k \in DOMAIN rateLimitStore' :
    IF k \in DOMAIN rateLimitStore
    THEN rateLimitStore'[k].firstRequest # rateLimitStore[k].firstRequest =>
           /\ now - rateLimitStore[k].firstRequest > RATE_LIMIT_WINDOW_MS
           /\ rateLimitStore'[k] = [count |-> 1, firstRequest |-> now]
    ELSE rateLimitStore'[k] = [count |-> 1, firstRequest |-> now]

\* The attempts of r's client admitted at a time from t to t plus the
\* window length.
AdmittedWithin(r, t) ==
  {p \in Ids : /\ Admitted(p) /\ SameClient(p, r)
               /\ t <= reqs[p].at
               /\ reqs[p].at <= t + RATE_LIMIT_WINDOW_MS}

\* At most RATE_LIMIT_MAX attempts are admitted from a window's start to the
\* window length later, and at most twice as many in any interval of the
\* window length (taken from the time of any attempt).
AdmissionsBounded ==
  \A r \in Ids :
    RateChecked(r) =>
      /\ Cardinality(AdmittedWithin(r, WindowOf(r))) <= RATE_LIMIT_MAX
      /\ Cardinality(AdmittedWithin(r, reqs[r].at)) <= 2 * RATE_LIMIT_MAX

\* C28: the clock never going back, windowStart changes only when an entry
\* is created or reset, at most RATE_LIMIT_MAX attempts of a client are
\* admitted between a windowStart and the window length later, and at most
\* 2 * RATE_LIMIT_MAX in any interval of the window length.
C28_AtMostTwiceTheQuota ==
  /\ [][now' >= now /\ WindowStartOnlyMoves]_vars
  /\ []AdmissionsBounded

\* More than RATE_LIMIT_MAX attempts admitted within one window length, at
\* the end of one window and the start of the next, and another attempt in
\* that interval rejected, of more than 2 * RATE_LIMIT_MAX attempts made.
C28_Witness ==
  \E r \in Ids : \E p \in Ids :
    /\ RateChecked(r)
    /\ Cardinality(AdmittedWithin(r, reqs[r].at)) > RATE_LIMIT_MAX
    /\ Rejected(p) /\ SameClient(p, r)
    /\ reqs[r].at <= reqs[p].at
    /\ reqs[p].at <= reqs[r].at + RATE_LIMIT_WINDOW_MS
    /\ Len(reqs) > 2 * RATE_LIMIT_MAX

\* ----------------------------------------------------------------- C29

\* The requests of r's client that arrived in r's window and called
\* createOne.
WritesInWindow(r) ==
  {p \in Ids : /\ RateChecked(p) /\ SameClient(p, r)
               /\ WindowOf(p) = WindowOf(r)
               /\ reqs[p].created # <<>>}

\* C29: whatever the interleaving of the requests and the outcome of the
\* storage and notification calls, the requests of one client that arrived
\* in one window cause at most RATE_LIMIT_MAX storage writes.
C29_WritesWithinQuota ==
  \A r \in Ids :
    /\ Len(reqs[r].created) <= 1
    /\ RateChecked(r) => Cardinality(WritesInWindow(r)) <= RATE_LIMIT_MAX

\* RATE_LIMIT_MAX writes of one client, one of them failed and one followed
\* by a failed notification, and a further valid request of the client
\* that wrote nothing.
C29_Witness ==
  \E r \in Ids :
    /\ Done(r) /\ BodyValid(r) /\ ~HoneypotSet(r) /\ reqs[r].created = <<>>
    /\ Cardinality(WritesInWindow(r)) = RATE_LIMIT_MAX
    /\ \E p \in WritesInWindow(r) : StorageFailed(p)
    /\ \E p \in WritesInWindow(r) : reqs[p].stored /\ NotificationFailed(p)

\* ----------------------------------------------------------------- C30

\* C30: a record handed to createOne still satisfies the field contracts:
\* its name and phone are the trimmed inputs, its subject is one of the
\* enumeration and its message, stripped of its tags, has between
\* MESSAGE_MIN and MESSAGE_MAX characters.
C30_StoredRecordKeepsContracts ==
  \A r \in Ids : \A d \in Records(r) :
    LET body == BodyOf(reqs[r].request)
    IN  /\ d.name = Trim(body.name.s) /\ NamePattern(d.name)
        /\ d.phone = (IF Truthy(body.phone) THEN Trim(body.phone.s) ELSE <<>>)
        /\ PhonePattern(d.phone)
        /\ SubjectAllowed(d.subject)
        /\ MessagePattern(d.message)
====
